---- MODULE Spec2Model ----
(***************************************************************************)
(* RobotMapViewer (custom_components/robovac_mqtt/frontend/map-viewer.js). *)
(*                                                                         *)
(* The widget is one object driven by browser callbacks: wheel, mousemove, *)
(* click and resize listeners, the pollMapData async loop (fetch, json,    *)
(* setTimeout) and the onload/onerror callbacks of the images it loads.    *)
(* JavaScript runs each callback to completion, so one action of this      *)
(* module is one callback; the only interleaving points are the awaits of  *)
(* pollMapData, the timer and the pending image loads.                     *)
(*                                                                         *)
(* Numbers.  scale is multiplied by 0.9 or 1.1 and clamped to [0.5, 3];    *)
(* pan is rescaled by scale/oldScale.  JavaScript numbers are IEEE-754     *)
(* binary64 values and every +, -, * and / rounds its exact result to the  *)
(* nearest such value, ties to the even significand.  A number is the      *)
(* record [s, m, e] of value s * m * 2^e: sign s, significand m as a       *)
(* little-endian sequence of base-2^15 limbs, m odd and below 2^53, and    *)
(* exponent e; zero is [0, <<>>, 0].  Each value has one record, so        *)
(* equality of records is === of the numbers.  The values of the model     *)
(* stay far from the overflow and underflow thresholds, so infinities,     *)
(* NaN and subnormals do not occur; -0 is not told apart from 0, as with   *)
(* ===.                                                                    *)
(***************************************************************************)
EXTENDS Integers, Sequences, FiniteSets, TLC

(***************************************************************************)
(* Natural numbers of any size: little-endian limb sequences, base Base,   *)
(* without leading zero limbs (<<>> is 0).                                 *)
(***************************************************************************)
LimbBits == 15

Base == 2^LimbBits

RECURSIVE Trim(_)
Trim(a) ==
  IF a = <<>> THEN <<>>
  ELSE IF a[Len(a)] = 0 THEN Trim(SubSeq(a, 1, Len(a) - 1))
  ELSE a

RECURSIVE NatDigits(_)
NatDigits(n) ==
  IF n = 0 THEN <<>> ELSE <<n % Base>> \o NatDigits(n \div Base)

RECURSIVE AddC(_, _, _)
AddC(a, b, c) ==
  IF a = <<>> /\ b = <<>> THEN (IF c = 0 THEN <<>> ELSE <<c>>)
  ELSE LET x == IF a = <<>> THEN 0 ELSE Head(a)
           y == IF b = <<>> THEN 0 ELSE Head(b)
           t == x + y + c
       IN  <<t % Base>> \o AddC(IF a = <<>> THEN <<>> ELSE Tail(a),
                                IF b = <<>> THEN <<>> ELSE Tail(b),
                                t \div Base)

AddN(a, b) == AddC(a, b, 0)

\* a - b for a >= b
RECURSIVE SubC(_, _, _)
SubC(a, b, c) ==
  IF a = <<>> THEN <<>>
  ELSE LET y == IF b = <<>> THEN 0 ELSE Head(b)
           t == Head(a) - y - c
       IN  <<IF t < 0 THEN t + Base ELSE t>>
             \o SubC(Tail(a), IF b = <<>> THEN <<>> ELSE Tail(b),
                     IF t < 0 THEN 1 ELSE 0)

SubN(a, b) == Trim(SubC(a, b, 0))

\* -1, 0, 1 as a < b, a = b, a > b
RECURSIVE CmpN(_, _)
CmpN(a, b) ==
  IF Len(a) # Len(b) THEN (IF Len(a) < Len(b) THEN -1 ELSE 1)
  ELSE IF a = <<>> THEN 0
  ELSE IF a[Len(a)] # b[Len(b)] THEN (IF a[Len(a)] < b[Len(b)] THEN -1 ELSE 1)
  ELSE CmpN(SubSeq(a, 1, Len(a) - 1), SubSeq(b, 1, Len(b) - 1))

\* a * k + c for a limb-sized k
RECURSIVE MulC(_, _, _)
MulC(a, k, c) ==
  IF a = <<>> THEN NatDigits(c)
  ELSE LET t == Head(a) * k + c
       IN  <<t % Base>> \o MulC(Tail(a), k, t \div Base)

MulSmall(a, k) == Trim(MulC(a, k, 0))

RECURSIVE MulN(_, _)
MulN(a, b) ==
  IF a = <<>> \/ b = <<>> THEN <<>>
  ELSE AddN(MulSmall(a, Head(b)),
            LET r == MulN(a, Tail(b)) IN IF r = <<>> THEN <<>> ELSE <<0>> \o r)

\* <<quotient, remainder>> of a by a small k
RECURSIVE DivRem(_, _)
DivRem(a, k) ==
  IF a = <<>> THEN <<<<>>, 0>>
  ELSE LET r   == DivRem(Tail(a), k)
           cur == r[2] * Base + Head(a)
       IN  <<<<cur \div k>> \o r[1], cur % k>>

\* the number of bits of a limb
RECURSIVE Bits(_)
Bits(n) == IF n = 0 THEN 0 ELSE 1 + Bits(n \div 2)

\* the number of bits of a
BitLen(a) ==
  IF a = <<>> THEN 0 ELSE LimbBits * (Len(a) - 1) + Bits(a[Len(a)])

\* a * 2^k
ShiftL(a, k) ==
  IF a = <<>> THEN <<>>
  ELSE IF k = 0 THEN a
  ELSE [i \in 1..(k \div LimbBits) |-> 0] \o MulSmall(a, 2^(k % LimbBits))

\* <<a \div 2^k, whether a % 2^k is not 0>>
ShiftR(a, k) ==
  LET q    == IF k \div LimbBits < Len(a) THEN k \div LimbBits ELSE Len(a)
      low  == SubSeq(a, 1, q)
      d    == DivRem(SubSeq(a, q + 1, Len(a)), 2^(k % LimbBits))
  IN  <<Trim(d[1]), d[2] # 0 \/ \E i \in 1..q : low[i] # 0>>

\* the quotient limb of r by b, for r < b * Base and b with a full top limb:
\* the estimate from the leading limbs is at most 2 too large
RECURSIVE Lower(_, _, _)
Lower(r, b, q) ==
  IF CmpN(MulSmall(b, q), r) > 0 THEN Lower(r, b, q - 1) ELSE q

Digit(r, b) ==
  LET n == Len(b)
  IN  IF Len(r) < n THEN 0
      ELSE LET top == IF Len(r) > n THEN r[n + 1] * Base + r[n] ELSE r[n]
               est == top \div b[n]
           IN  Lower(r, b, IF est >= Base THEN Base - 1 ELSE est)

\* long division, from the most significant limb of a down
RECURSIVE DivStep(_, _)
DivStep(a, b) ==
  IF a = <<>> THEN <<<<>>, <<>>>>
  ELSE LET h == DivStep(Tail(a), b)
           r == Trim(<<Head(a)>> \o h[2])
           q == Digit(r, b)
       IN  <<<<q>> \o h[1], IF q = 0 THEN r ELSE SubN(r, MulSmall(b, q))>>

\* <<a \div b, whether a % b is not 0>> for b # 0
DivN(a, b) ==
  LET sh == LimbBits - Bits(b[Len(b)])
      d  == DivStep(ShiftL(a, sh), ShiftL(b, sh))
  IN  <<Trim(d[1]), d[2] # <<>>>>

(***************************************************************************)
(* JavaScript numbers: IEEE-754 binary64, round to nearest, ties to even.  *)
(***************************************************************************)
Precision == 53

Zero == [s |-> 0, m |-> <<>>, e |-> 0]

\* the trailing zero bits of a limb n > 0
RECURSIVE LowZeros(_)
LowZeros(n) == IF n % 2 = 1 THEN 0 ELSE 1 + LowZeros(n \div 2)

\* the zero limbs at the low end of a # <<>>
RECURSIVE ZeroLimbs(_)
ZeroLimbs(a) == IF Head(a) # 0 THEN 0 ELSE 1 + ZeroLimbs(Tail(a))

\* the record of s * m * 2^e, with an odd significand
Num(s, m, e) ==
  IF s = 0 \/ m = <<>> THEN Zero
  ELSE IF m[1] % 2 = 1 THEN [s |-> s, m |-> m, e |-> e]
  ELSE LET z == ZeroLimbs(m)
           a == SubSeq(m, z + 1, Len(m))
           t == LowZeros(a[1])
       IN  [s |-> s, m |-> Trim(DivRem(a, 2^t)[1]), e |-> e + LimbBits * z + t]

\* the double nearest to s * m * 2^e, ties to the even significand
Round(s, m, e) ==
  LET L == BitLen(m)
  IN  IF L <= Precision THEN Num(s, m, e)
      ELSE LET d  == L - Precision
               h  == ShiftR(m, d - 1)
               q  == DivRem(h[1], 2)
               qq == Trim(q[1])
               up == q[2] = 1 /\ (h[2] \/ qq[1] % 2 = 1)
           IN  Num(s, IF up THEN AddN(qq, <<1>>) ELSE qq, e + d)

Abs(i) == IF i < 0 THEN -i ELSE i

Sgn(i) == IF i < 0 THEN -1 ELSE IF i = 0 THEN 0 ELSE 1

\* the integer i
FromInt(i) == Num(Sgn(i), NatDigits(Abs(i)), 0)

Neg(x) == [x EXCEPT !.s = -x.s]

\* the significand of x over 2^e (e <= x.e)
Over(x, e) == ShiftL(x.m, x.e - e)

\* the exact sum of x and y
Sum(x, y) ==
  LET e == IF x.e <= y.e THEN x.e ELSE y.e
      a == Over(x, e)
      b == Over(y, e)
  IN  IF x.s = 0 THEN y
      ELSE IF y.s = 0 THEN x
      ELSE IF x.s = y.s THEN [s |-> x.s, m |-> AddN(a, b), e |-> e]
      ELSE LET c == CmpN(a, b)
           IN  IF c = 0 THEN Zero
               ELSE IF c > 0 THEN [s |-> x.s, m |-> SubN(a, b), e |-> e]
               ELSE [s |-> y.s, m |-> SubN(b, a), e |-> e]

\* the exact product of x and y
Prod(x, y) == [s |-> x.s * y.s, m |-> MulN(x.m, y.m), e |-> x.e + y.e]

\* the double nearest to the exact value r
Fl(r) == Round(r.s, r.m, r.e)

\* x + y
Add(x, y) == Fl(Sum(x, y))

\* x - y
Sub(x, y) == Add(x, Neg(y))

\* x * y: a product with a power of two is exact
Mul(x, y) ==
  IF x.s = 0 \/ y.s = 0 THEN Zero
  ELSE IF x.m = <<1>> THEN [s |-> x.s * y.s, m |-> y.m, e |-> x.e + y.e]
  ELSE IF y.m = <<1>> THEN [s |-> x.s * y.s, m |-> x.m, e |-> x.e + y.e]
  ELSE Fl(Prod(x, y))

\* x / y for y # 0.  A quotient by a power of two, or of equal significands, is
\* exact; otherwise the quotient to Precision + 2 bits or more, then a last bit
\* that says whether the division left a remainder, then rounded
Div(x, y) ==
  IF x.s = 0 THEN Zero
  ELSE IF y.m = <<1>> \/ y.m = x.m
       THEN [s |-> x.s * y.s, m |-> IF y.m = x.m THEN <<1>> ELSE x.m, e |-> x.e - y.e]
  ELSE LET k == Precision + 2 + BitLen(y.m) - BitLen(x.m)
           d == DivN(ShiftL(x.m, k), y.m)
       IN  Round(x.s * y.s,
                 AddN(ShiftL(d[1], 1), IF d[2] THEN <<1>> ELSE <<>>),
                 x.e - y.e - k - 1)

\* -1, 0, 1 as x < y, x = y, x > y
Cmp(x, y) ==
  IF x.s # y.s THEN (IF x.s < y.s THEN -1 ELSE 1)
  ELSE IF x.s = 0 THEN 0
  ELSE LET hx == BitLen(x.m) + x.e
           hy == BitLen(y.m) + y.e
           e  == IF x.e <= y.e THEN x.e ELSE y.e
       IN  IF hx # hy THEN (IF hx < hy THEN -x.s ELSE x.s)
           ELSE x.s * CmpN(Over(x, e), Over(y, e))

Leq(x, y) == Cmp(x, y) <= 0

\* Math.max and Math.min
MathMax(x, y) == IF Cmp(x, y) >= 0 THEN x ELSE y

MathMin(x, y) == IF Cmp(x, y) <= 0 THEN x ELSE y

\* the literal 0.5
Half == Div(FromInt(1), FromInt(2))

One == FromInt(1)

Three == FromInt(3)

\* real-number arithmetic on doubles, nothing rounded: what a tolerance is
\* measured with
Exact(r) == Num(r.s, r.m, r.e)

Plus(x, y) == Exact(Sum(x, y))

Minus(x, y) == Plus(x, Neg(y))

Times(x, y) == Exact(Prod(x, y))

Magnitude(x) == [x EXCEPT !.s = x.s * x.s]

\* 2^k
Pow2(k) == [s |-> 1, m |-> <<1>>, e |-> k]

(***************************************************************************)
(* Bounds of the model and the inputs the environment draws from.          *)
(***************************************************************************)
\* wheel, mousemove, click and resize events of a run of Spec
MaxInputs == 2

\* wheel events of a run of SpecZoom: 0.9^7 < 0.5 and 1.1^12 > 3
MaxDeepWheel == 12

\* mousemove, click and resize events of a run of SpecZoom
MaxDeepOthers == 1

\* images created by loadMapImage in a run of Spec
MaxLoads == 1

\* images created by loadMapImage in a run of SpecUrl
MaxDeepLoads == 2

\* cursor positions, relative to the canvas (clientX - rect.left, clientY - rect.top)
MousePoints == {<<0, 0>>, <<40, 30>>}

\* event.buttons: none, primary, primary + secondary
Buttons == {0, 1, 3}

\* event.deltaY of a wheel event
DeltaYs == {-100, 100}

\* sizes of the canvas's parent element
Sizes == {<<400, 300>>, <<301, 200>>}

\* an optional JSON field: <<>> when missing, <<v>> when present
None == <<>>

Some(v) == <<v>>

\* decoded bodies of the state endpoint; a body that is JSON null has isNull
Payload(isNull, st, attrs) == [isNull |-> isNull, state |-> st, attributes |-> attrs]

Attrs(pos, url) == [position |-> pos, map_url |-> url]

Pos(x, y) == [x |-> x, y |-> y]

PNull == Payload(TRUE, None, None)

PBare == Payload(FALSE, Some("docked"), None)

PPos == Payload(FALSE, Some("cleaning"), Some(Attrs(Some(Pos(Some(-64), Some(7))), None)))

PUrl == Payload(FALSE, Some("returning"), Some(Attrs(None, Some("a.png"))))

PBoth == Payload(FALSE, None, Some(Attrs(Some(Pos(Some(3), None)), Some("b.png"))))

Payloads == {PNull, PBare, PPos, PUrl, PBoth}

(***************************************************************************)
(* State.                                                                  *)
(***************************************************************************)
VARIABLES
  mapImage,         \* this.mapImage: None, or Some(image)
  robotPosition,    \* this.robotPosition: [x, y]
  scale,            \* this.scale
  pan,              \* this.pan: [x, y]
  isLoading,        \* this.isLoading
  canvas,           \* <<canvas.width, canvas.height>>
  bitmap,           \* what the canvas shows: None once cleared, or Some(frame)
  loadingIndicator, \* style.display of #loading-indicator
  statusDisplay,    \* #status-display and #position-display
  errorContainer,   \* the message in #error-container, "" while empty
  images,           \* Image objects whose load is pending
  nLoad,            \* Image objects created so far
  fetching,         \* pollMapData calls awaiting fetch
  decoding,         \* pollMapData calls awaiting response.json()
  timers,           \* pending setTimeout callbacks
  container,        \* size of canvas.parentElement
  mouse,            \* cursor position
  nWheel,           \* wheel events so far
  nMove,            \* mousemove events so far
  nOther,           \* click and resize events so far
  lastUrl           \* history, kept in the runs of SpecUrl: map_url of the state
                    \* decoded last, None if it had none

vars == <<mapImage, robotPosition, scale, pan, isLoading, canvas, bitmap,
          loadingIndicator, statusDisplay, errorContainer, images, nLoad,
          fetching, decoding, timers, container, mouse, nWheel, nMove, nOther, lastUrl>>

\* the object, the DOM elements it writes and the images it waits for, as one record
This ==
  [mapImage |-> mapImage, robotPosition |-> robotPosition, scale |-> scale,
   pan |-> pan, isLoading |-> isLoading, canvas |-> canvas, bitmap |-> bitmap,
   loadingIndicator |-> loadingIndicator, statusDisplay |-> statusDisplay,
   errorContainer |-> errorContainer, images |-> images, nLoad |-> nLoad]

\* a callback ran and left w
Commit(w) ==
  /\ mapImage' = w.mapImage
  /\ robotPosition' = w.robotPosition
  /\ scale' = w.scale
  /\ pan' = w.pan
  /\ isLoading' = w.isLoading
  /\ canvas' = w.canvas
  /\ bitmap' = w.bitmap
  /\ loadingIndicator' = w.loadingIndicator
  /\ statusDisplay' = w.statusDisplay
  /\ errorContainer' = w.errorContainer
  /\ images' = w.images
  /\ nLoad' = w.nLoad

(***************************************************************************)
(* Methods of RobotMapViewer: each maps the record before to the record    *)
(* after.                                                                  *)
(***************************************************************************)
MsgData == "Failed to load map data"

MsgImage == "Failed to load map image"

setupCanvas(w, rect) == [w EXCEPT !.canvas = rect, !.bitmap = None]

showError(w, message) == [w EXCEPT !.errorContainer = message]

\* the frame render draws: drawImage, drawGrid, drawRobot under translate/scale
Frame(w) ==
  [pan |-> w.pan, scale |-> w.scale, image |-> w.mapImage,
   robot |-> w.robotPosition, size |-> w.canvas]

drawOverlay(w) ==
  [w EXCEPT !.loadingIndicator = IF w.isLoading THEN "flex" ELSE "none"]

render(w) == drawOverlay([w EXCEPT !.bitmap = Some(Frame(w))])

\* ctx.translate(pan.x, pan.y); ctx.scale(scale, scale): where the map
\* coordinate r is drawn, for one axis
screenAxis(r, p, s) == Add(Mul(FromInt(r), s), p)

toScreen(pt, pn, s) ==
  [x |-> screenAxis(pt.x, pn.x, s), y |-> screenAxis(pt.y, pn.y, s)]

\* the inverse: the map coordinate drawn at the screen coordinate a
mapAxis(a, p, s) == Div(Sub(FromInt(a), p), s)

toMap(at, pn, s) ==
  [x |-> mapAxis(at[1], pn.x, s), y |-> mapAxis(at[2], pn.y, s)]

\* v.toFixed(1) of an integer v: the tenths shown
ToFixed1(v) == 10 * v

\* truthiness of an optional field holding an object, a string, a number
TruthyObj(a) == a # None

TruthyStr(a) == a # None /\ a[1] # ""

TruthyNum(a) == a # None /\ a[1] # 0

\* a || 0 and a || 'Unknown'
OrZero(a) == IF TruthyNum(a) THEN a[1] ELSE 0

OrUnknown(a) == IF TruthyStr(a) THEN a[1] ELSE "Unknown"

updateStatusDisplay(w, state) ==
  [w EXCEPT !.statusDisplay =
     [status |-> OrUnknown(state.state),
      position |-> <<ToFixed1(w.robotPosition.x), ToFixed1(w.robotPosition.y)>>]]

loadMapImage(w, url) ==
  [w EXCEPT !.images = @ \cup {[id |-> w.nLoad + 1, src |-> url]},
            !.nLoad = @ + 1]

\* a changed updatePosition: y copied from pos.x
updatePositionCopied(w, attributes) ==
  IF TruthyObj(attributes.position)
  THEN LET pos == attributes.position[1]
       IN  [w EXCEPT !.robotPosition = [x |-> OrZero(pos.x), y |-> OrZero(pos.x)]]
  ELSE w

\* lines 58-64
updatePosition(w, attributes) ==
  IF TruthyObj(attributes.position)
  THEN LET pos == attributes.position[1]
       IN  [w EXCEPT !.robotPosition = [x |-> OrZero(pos.x), y |-> OrZero(pos.y)]]
  ELSE w

\* lines 66-69
updateMap(w, attributes) ==
  IF TruthyStr(attributes.map_url) THEN loadMapImage(w, attributes.map_url[1]) ELSE w

\* a changed updateFromState: render runs before isLoading is cleared
updateFromStateEarlyRender(w, state) ==
  LET w1 == IF TruthyObj(state.attributes)
            THEN LET a == state.attributes[1]
                 IN  updateStatusDisplay(updateMap(updatePosition(w, a), a), state)
            ELSE w
  IN  [render(w1) EXCEPT !.isLoading = FALSE]

\* a changed updateFromState: an applied state clears the error banner
updateFromStateClearing(w, state) ==
  LET w1 == IF TruthyObj(state.attributes)
            THEN LET a == state.attributes[1]
                 IN  updateStatusDisplay(updateMap(updatePosition(w, a), a), state)
            ELSE w
  IN  render([w1 EXCEPT !.isLoading = FALSE, !.errorContainer = ""])

updateFromState(w, state) ==
  LET w1 == IF TruthyObj(state.attributes)
            THEN LET a == state.attributes[1]
                 IN  updateStatusDisplay(updateMap(updatePosition(w, a), a), state)
            ELSE w
  IN  render([w1 EXCEPT !.isLoading = FALSE])

\* the literals 0.9 and 1.1: the doubles nearest to 9/10 and 11/10
ZoomOut == Div(FromInt(9), FromInt(10))

ZoomIn == Div(FromInt(11), FromInt(10))

\* line 95
zoomFactor(deltaY) == IF deltaY > 0 THEN ZoomOut ELSE ZoomIn

\* a changed clampScale: the upper limit is missing
clampScaleNoMin(s) == MathMax(Half, s)

\* line 98
clampScale(s) == MathMax(Half, MathMin(Three, s))

\* a changed zoomPan: the ratio is inverted
zoomPanInverted(m, p, s, oldScale) == Sub(m, Mul(Sub(m, p), Div(oldScale, s)))

\* lines 105-106, for one axis
zoomPan(m, p, s, oldScale) == Sub(m, Mul(Sub(m, p), Div(s, oldScale)))

handleZoom(w, deltaY, at) ==
  LET oldScale == w.scale
      s        == clampScale(Mul(w.scale, zoomFactor(deltaY)))
      mouseX   == FromInt(at[1])
      mouseY   == FromInt(at[2])
  IN  render([w EXCEPT !.scale = s,
                       !.pan = [x |-> zoomPan(mouseX, w.pan.x, s, oldScale),
                                y |-> zoomPan(mouseY, w.pan.y, s, oldScale)]])

handlePan(w, buttons, movement) ==
  IF buttons # 1 THEN w
  ELSE render([w EXCEPT !.pan = [x |-> Add(w.pan.x, FromInt(movement[1])),
                                 y |-> Add(w.pan.y, FromInt(movement[2]))]])

\* a changed centerPan: the pose is not scaled
centerPanUnscaled(size, robot, s) == Sub(Div(FromInt(size), FromInt(2)), FromInt(robot))

\* lines 121-122, for one axis
centerPan(size, robot, s) == Sub(Div(FromInt(size), FromInt(2)), Mul(FromInt(robot), s))

\* event, the clicked point, is not read
handleClick(w, event) ==
  render([w EXCEPT !.pan = [x |-> centerPan(w.canvas[1], w.robotPosition.x, w.scale),
                            y |-> centerPan(w.canvas[2], w.robotPosition.y, w.scale)]])

\* a changed onload: the completion of a superseded load is ignored
onloadLatest(w, img, rect) ==
  IF w.mapImage # None /\ w.mapImage[1].id > img.id
  THEN w
  ELSE render(setupCanvas([w EXCEPT !.mapImage = Some(img)], rect))

\* a changed onload: the view is reset to show the new image from its corner
onloadResetView(w, img, rect) ==
  render(setupCanvas([w EXCEPT !.mapImage = Some(img), !.scale = One,
                               !.pan = [x |-> Zero, y |-> Zero]], rect))

\* img.onload
onload(w, img, rect) == render(setupCanvas([w EXCEPT !.mapImage = Some(img)], rect))

\* a changed onerror: the failed image replaces the map
onerrorClearing(w) == [showError(w, MsgImage) EXCEPT !.mapImage = None]

\* img.onerror
onerror(w) == showError(w, MsgImage)

\* a changed catch block: it also ends the loading state
catchNotLoading(w) == [showError(w, MsgData) EXCEPT !.isLoading = FALSE]

\* a changed catch block: a failed cycle shows the loading state again
catchLoading(w) == [showError(w, MsgData) EXCEPT !.isLoading = TRUE]

\* the catch block of pollMapData
catch(w) == showError(w, MsgData)

\* lines 43-44 after response.json() resolved with state: a null body throws at line 56
applyState(w, state) == IF state.isNull THEN catch(w) ELSE updateFromState(w, state)

(***************************************************************************)
(* The constructor.                                                        *)
(***************************************************************************)
InitialSize == <<400, 300>>

Init ==
  /\ mapImage = None
  /\ robotPosition = [x |-> 0, y |-> 0]
  /\ scale = One
  /\ pan = [x |-> Zero, y |-> Zero]
  /\ isLoading = TRUE
  /\ container = InitialSize
  /\ canvas = InitialSize
  /\ bitmap = None
  /\ loadingIndicator = "initial"
  /\ statusDisplay = [status |-> "", position |-> <<>>]
  /\ errorContainer = ""
  /\ images = {}
  /\ nLoad = 0
  /\ fetching = 1
  /\ decoding = 0
  /\ timers = 0
  /\ mouse = <<0, 0>>
  /\ nWheel = 0
  /\ nMove = 0
  /\ nOther = 0
  /\ lastUrl = None

(***************************************************************************)
(* Callbacks.                                                              *)
(***************************************************************************)
WheelEvent(budget) ==
  /\ budget
  /\ \E deltaY \in DeltaYs :
       Commit(handleZoom(This, deltaY, mouse))
  /\ nWheel' = nWheel + 1
  /\ UNCHANGED <<fetching, decoding, timers, container, mouse, nMove, nOther, lastUrl>>

\* event.movementX, event.movementY of a move of the cursor to the point to
Movement(to) == <<to[1] - mouse[1], to[2] - mouse[2]>>

\* a mousemove to the point to with event.buttons = buttons
MouseMove(to, buttons) ==
  /\ mouse' = to
  /\ nMove' = nMove + 1
  /\ UNCHANGED <<fetching, decoding, timers, container, nWheel, nOther, lastUrl>>
  /\ Commit(handlePan(This, buttons, Movement(to)))

MouseMoveEvent(budget) ==
  \E to \in MousePoints, buttons \in Buttons :
    /\ budget
    /\ MouseMove(to, buttons)

\* a click, at the point the cursor is at
ClickEvent(budget) ==
  /\ budget
  /\ nOther' = nOther + 1
  /\ UNCHANGED <<fetching, decoding, timers, container, mouse, nWheel, nMove, lastUrl>>
  /\ Commit(handleClick(This, mouse))

ResizeEvent(budget) ==
  \E size \in Sizes :
    /\ budget
    /\ container' = size
    /\ Commit(setupCanvas(This, size))
    /\ nOther' = nOther + 1
    /\ UNCHANGED <<fetching, decoding, timers, mouse, nWheel, nMove, lastUrl>>

\* await fetch(...) rejects
FetchReject ==
  /\ fetching > 0
  /\ fetching' = fetching - 1
  /\ timers' = timers + 1
  /\ Commit(catch(This))
  /\ UNCHANGED <<decoding, container, mouse, nWheel, nMove, nOther, lastUrl>>

\* a changed pollMapData: it returns on a response that is not ok
FetchNotOkReturning ==
  /\ fetching > 0
  /\ fetching' = fetching - 1
  /\ Commit(This)
  /\ UNCHANGED <<decoding, timers, container, mouse, nWheel, nMove, nOther, lastUrl>>

\* await fetch(...) resolves with response.ok false
FetchNotOk ==
  /\ fetching > 0
  /\ fetching' = fetching - 1
  /\ timers' = timers + 1
  /\ Commit(This)
  /\ UNCHANGED <<decoding, container, mouse, nWheel, nMove, nOther, lastUrl>>

\* a changed pollMapData: the timer is armed before the body is awaited
FetchOkArming ==
  /\ fetching > 0
  /\ fetching' = fetching - 1
  /\ decoding' = decoding + 1
  /\ timers' = timers + 1
  /\ Commit(This)
  /\ UNCHANGED <<container, mouse, nWheel, nMove, nOther, lastUrl>>

\* await fetch(...) resolves with response.ok true
FetchOk ==
  /\ fetching > 0
  /\ fetching' = fetching - 1
  /\ decoding' = decoding + 1
  /\ Commit(This)
  /\ UNCHANGED <<timers, container, mouse, nWheel, nMove, nOther, lastUrl>>

\* await response.json() rejects: the body is not JSON
JsonReject ==
  /\ decoding > 0
  /\ decoding' = decoding - 1
  /\ timers' = timers + 1
  /\ Commit(catch(This))
  /\ UNCHANGED <<fetching, container, mouse, nWheel, nMove, nOther, lastUrl>>

\* the body state carries a map_url that updateFromState will load
CarriesUrl(state) ==
  ~state.isNull /\ TruthyObj(state.attributes) /\ TruthyStr(state.attributes[1].map_url)

\* state.attributes.map_url as decoded, None when the body has none
DecodedUrl(state) ==
  IF ~state.isNull /\ TruthyObj(state.attributes) THEN state.attributes[1].map_url ELSE None

\* await response.json() resolves with state
Apply(state) ==
  /\ decoding > 0
  /\ CarriesUrl(state) => nLoad < MaxLoads
  /\ decoding' = decoding - 1
  /\ timers' = timers + 1
  /\ Commit(applyState(This, state))
  /\ UNCHANGED <<fetching, container, mouse, nWheel, nMove, nOther, lastUrl>>

JsonResolve(payloads) == \E state \in payloads : Apply(state)

\* the same step in a run of SpecUrl: the decoded map_url is noted in lastUrl
ApplyNoting(state) ==
  /\ decoding > 0
  /\ CarriesUrl(state) => nLoad < MaxDeepLoads
  /\ decoding' = decoding - 1
  /\ timers' = timers + 1
  /\ lastUrl' = DecodedUrl(state)
  /\ UNCHANGED <<fetching, container, mouse, nWheel, nMove, nOther>>
  /\ Commit(applyState(This, state))

JsonResolveNoting(payloads) == \E state \in payloads : ApplyNoting(state)

\* the setTimeout callback: pollMapData runs to its first await
TimerFire ==
  /\ timers > 0
  /\ timers' = timers - 1
  /\ fetching' = fetching + 1
  /\ Commit(This)
  /\ UNCHANGED <<decoding, container, mouse, nWheel, nMove, nOther, lastUrl>>

\* img.onload fires for the pending image img
Loaded(img) ==
  /\ UNCHANGED <<fetching, decoding, timers, container, mouse, nWheel, nMove, nOther, lastUrl>>
  /\ Commit(onload([This EXCEPT !.images = @ \ {img}], img, container))

ImageLoad == \E img \in images : Loaded(img)

\* img.onerror fires for the pending image img
Failed(img) ==
  /\ UNCHANGED <<fetching, decoding, timers, container, mouse, nWheel, nMove, nOther, lastUrl>>
  /\ Commit(onerror([This EXCEPT !.images = @ \ {img}]))

ImageError == \E img \in images : Failed(img)

\* Spec bounds the input events of a run together
InBudget == nWheel + nMove + nOther < MaxInputs

Next ==
  \/ WheelEvent(InBudget)
  \/ MouseMoveEvent(InBudget)
  \/ ClickEvent(InBudget)
  \/ ResizeEvent(InBudget)
  \/ FetchReject
  \/ FetchNotOk
  \/ FetchOk
  \/ JsonReject
  \/ JsonResolve(Payloads)
  \/ TimerFire
  \/ ImageLoad
  \/ ImageError

Spec == Init /\ [][Next]_vars

\* the runs of input events alone (no poll has answered) that move the pointer,
\* click and resize first and then turn the wheel, with room for the wheel to
\* reach both clamps
InDeepBudget == nWheel = 0 /\ nMove + nOther < MaxDeepOthers

NextZoom ==
  \/ WheelEvent(nWheel < MaxDeepWheel)
  \/ MouseMoveEvent(InDeepBudget)
  \/ ClickEvent(InDeepBudget)
  \/ ResizeEvent(InDeepBudget)

SpecZoom == Init /\ [][NextZoom]_vars

\* the runs of the poll loop and the image loads alone, with the history lastUrl
NextUrl ==
  \/ FetchReject
  \/ FetchNotOk
  \/ FetchOk
  \/ JsonReject
  \/ JsonResolveNoting(Payloads)
  \/ TimerFire
  \/ ImageLoad
  \/ ImageError

SpecUrl == Init /\ [][NextUrl]_vars

\* fetch and response.json() settle, and a timer that is due fires
Fairness ==
  /\ WF_vars(FetchReject \/ FetchNotOk \/ FetchOk)
  /\ WF_vars(JsonReject \/ JsonResolve(Payloads))
  /\ WF_vars(TimerFire)

SpecFair == Spec /\ Fairness

(***************************************************************************)
(* Claims.                                                                 *)
(***************************************************************************)
Origin == [x |-> 0, y |-> 0]

\* C1: starting from scale = 1, 0.5 <= scale <= 3.0 holds in every reachable state
ScaleClamped == Leq(Half, scale) /\ Leq(scale, Three)

\* twelve zoom-in steps from 1 end at the upper limit
ScaleAtUpperLimit == nWheel >= 12 /\ scale = Three

\* C2 as stated: the map point under the cursor is the same number before and
\* after handleZoom, for every reachable pan and scale, both directions, clamped
\* steps included
ZoomKeepsAnchor ==
  [][nWheel' # nWheel => toMap(mouse, pan', scale') = toMap(mouse, pan, scale)]_vars

\* one axis of the anchor, before and after a zoom step that left pan p and
\* scale s: |after - before| * s <= 2^-50 * (|before| * s + |p|)
AnchorNear(before, after, p, s) ==
  \/ after = before
  \/ Leq(Times(Magnitude(Minus(after, before)), s),
         Times(Pow2(-50), Plus(Times(Magnitude(before), s), Magnitude(p))))

\* one axis of a zoom step at the cursor coordinate a, from pan p and scale s to
\* pan p2 and scale s2
AnchorKept(a, p, s, p2, s2) ==
  LET before == mapAxis(a, p, s)
      after  == mapAxis(a, p2, s2)
  IN  AnchorNear(before, after, p2, s2)

\* C2: the map point under the cursor moves by no more than the rounding of
\* handleZoom's arithmetic, 2^-50 * (|map point| + |pan'| / scale') per axis,
\* for every reachable pan and scale, both directions, clamped steps included
ZoomKeepsAnchorNear ==
  [][nWheel' # nWheel =>
       /\ AnchorKept(mouse[1], pan.x, scale, pan'.x, scale')
       /\ AnchorKept(mouse[2], pan.y, scale, pan'.y, scale')]_vars

\* the cursor was moved to (40, 30) over the untouched view, where it is over
\* the map point (40, 30), and the wheel zoomed out until the lower limit held
\* the scale: the map point under the cursor is no longer 40 to the last bit,
\* and no further than 2^-40 from it
ZoomedOutAtCursor ==
  /\ scale = Half
  /\ mouse = <<40, 30>>
  /\ nMove = 1
  /\ nOther = 0
  /\ mapAxis(40, pan.x, scale) # FromInt(40)
  /\ Leq(Magnitude(Minus(mapAxis(40, pan.x, scale), FromInt(40))), Pow2(-40))

Center(size) == [x |-> Div(FromInt(size[1]), FromInt(2)), y |-> Div(FromInt(size[2]), FromInt(2))]

\* C3 as stated: after handleClick robotPose * scale + pan is the canvas center
\* and scale is unchanged, whatever pan, scale and pose were and wherever the
\* click was
ClickCentersRobot ==
  [][ClickEvent(TRUE) =>
       /\ toScreen(robotPosition', pan', scale') = Center(canvas')
       /\ scale' = scale]_vars

\* one axis of the pose r drawn under scale s, against the center c:
\* |screen - c| <= 2^-51 * (|c| + |r * s|)
CenterNear(screen, c, r, s) ==
  \/ screen = c
  \/ Leq(Magnitude(Minus(screen, c)),
         Times(Pow2(-51), Plus(Magnitude(c), Magnitude(Times(FromInt(r), s)))))

\* one axis of the view a click left: the pose r, pan p, scale s, canvas size
Centered(r, p, s, size) ==
  LET screen == screenAxis(r, p, s)
  IN  CenterNear(screen, Div(FromInt(size), FromInt(2)), r, s)

\* C3: after handleClick robotPose * scale + pan is the canvas center up to the
\* rounding of handleClick's arithmetic, 2^-51 * (|center| + |pose * scale|) per
\* axis, and scale is unchanged, whatever pan, scale and pose were and wherever
\* the click was
ClickCentersRobotNear ==
  [][ClickEvent(TRUE) =>
       /\ scale' = scale
       /\ Centered(robotPosition'.x, pan'.x, scale', canvas'[1])
       /\ Centered(robotPosition'.y, pan'.y, scale', canvas'[2])]_vars

\* pan is what a click leaves for the pose (-64, 7) under a zoomed scale, and
\* the pose is drawn off the center's x by a rounding error
RobotCentered ==
  /\ nOther > 0
  /\ nWheel > 0
  /\ scale # One
  /\ robotPosition = [x |-> -64, y |-> 7]
  /\ pan = [x |-> centerPan(canvas[1], -64, scale), y |-> centerPan(canvas[2], 7, scale)]
  /\ screenAxis(-64, pan.x, scale) # Center(canvas).x
  /\ screenAxis(7, pan.y, scale) = Center(canvas).y
  /\ Centered(-64, pan.x, scale, canvas[1])

\* C4: a poll cycle whose fetch rejects changes none of isLoading, robotPosition
\* and mapImage, sets the error banner, and arms the timer of the next cycle
RejectedFetchKeepsScene ==
  [][(FetchReject =>
        /\ errorContainer' = MsgData
        /\ timers' = timers + 1)
     /\ (FetchReject \/ TimerFire =>
        /\ isLoading' = isLoading
        /\ robotPosition' = robotPosition
        /\ mapImage' = mapImage)]_vars

\* the banner is up, the widget still loading, the next cycle armed
FailedWhileLoading ==
  /\ errorContainer = MsgData
  /\ isLoading
  /\ timers = 1
  /\ robotPosition = Origin

\* C5: whatever the outcome of a cycle, the next one starts: under Fairness
\* infinitely many poll cycles start
PollLoopNeverHalts == []<><<TimerFire>>_vars

\* a cycle is under way after an earlier one failed
PollingAfterFailure == fetching = 1 /\ errorContainer = MsgData

HasNoPosition(state) ==
  ~state.isNull /\ (state.attributes = None \/ state.attributes[1].position = None)

\* C6: applying a state without position leaves robotPosition at {0,0}, whatever
\* the pose was before
MissingPositionResets ==
  [][\A state \in Payloads :
       Apply(state) /\ HasNoPosition(state) => robotPosition' = Origin]_vars

\* C7: a response that is not ok puts a message in the error banner
NotOkShowsError == [][FetchNotOk => errorContainer' = MsgData]_vars

PositionOnly(state) ==
  /\ ~state.isNull
  /\ state.attributes # None
  /\ state.attributes[1].map_url = None
  /\ state.attributes[1].position # None
  /\ TruthyNum(state.attributes[1].position[1].x)
  /\ TruthyNum(state.attributes[1].position[1].y)

\* C8: applying a state with position {x, y}, both non-zero, and no map_url sets
\* robotPosition to {x, y}, leaves mapImage unchanged and starts no image load
PositionOnlyApply ==
  [][\A state \in Payloads :
       Apply(state) /\ PositionOnly(state) =>
         /\ robotPosition' = [x |-> state.attributes[1].position[1].x[1],
                              y |-> state.attributes[1].position[1].y[1]]
         /\ mapImage' = mapImage
         /\ images' = images
         /\ nLoad' = nLoad]_vars

\* PPos was the last state with attributes applied, with a map already loaded
PoseSetMapKept ==
  /\ statusDisplay = [status |-> "cleaning", position |-> <<-640, 70>>]
  /\ robotPosition = [x |-> -64, y |-> 7]
  /\ mapImage = Some([id |-> 1, src |-> "a.png"])
  /\ images = {}
  /\ nLoad = 1

\* C9: mapImage changes only when an image load completes, and is never null
\* again once it is set
MapImageOnlyOnLoad ==
  [][/\ mapImage' # mapImage => ImageLoad
     /\ mapImage # None => mapImage' # None]_vars

\* one load succeeded, the other failed, and the map is the one that loaded
MapKeptAfterFailedLoad ==
  /\ mapImage # None
  /\ images = {}
  /\ nLoad = 2
  /\ errorContainer = MsgImage

\* C10: what render drew is the robotPosition and isLoading the object holds:
\* no frame pairs the pose of an apply with the loading flag of before it
NoTornFrame ==
  /\ bitmap # None => bitmap[1].robot = robotPosition
  /\ loadingIndicator # "initial" => loadingIndicator = IF isLoading THEN "flex" ELSE "none"

\* a frame drawn after an apply and an input event
FrameAfterApply ==
  /\ bitmap # None
  /\ bitmap[1].robot = [x |-> -64, y |-> 7]
  /\ loadingIndicator = "none"
  /\ nWheel + nMove + nOther > 0

\* the canvas shows a frame drawn from the fields the object holds now
Redrawn == bitmap = Some(Frame(This))

\* C11: every resize sets the canvas size to the container's and renders in the
\* same handler, with pan and scale unchanged
ResizeRenders ==
  [][ResizeEvent(TRUE) =>
       /\ canvas' = container'
       /\ pan' = pan
       /\ scale' = scale
       /\ Redrawn']_vars

\* pan moved by the movement of a mousemove to the point to
Panned(to) ==
  /\ pan'.x = Add(pan.x, FromInt(Movement(to)[1]))
  /\ pan'.y = Add(pan.y, FromInt(Movement(to)[2]))

\* C12: a mousemove with the primary button held, alone or with other buttons,
\* adds the movement to pan, leaves scale and renders; a mousemove with no button
\* held leaves pan and scale and does not render
MoveWithPrimaryPans ==
  [][\A to \in MousePoints, buttons \in Buttons :
       MouseMove(to, buttons) =>
         /\ scale' = scale
         /\ buttons % 2 = 1 => Panned(to) /\ Redrawn'
         /\ buttons = 0 => pan' = pan /\ bitmap' = bitmap
                           /\ loadingIndicator' = loadingIndicator]_vars

\* C13: an apply starts an image load only when the decoded map_url changed: a
\* state with the map_url of the state decoded before it starts no load
LoadOnlyOnUrlChange ==
  [][\A state \in Payloads :
       ApplyNoting(state) /\ CarriesUrl(state) /\ lastUrl = DecodedUrl(state) =>
         /\ nLoad' = nLoad
         /\ images' = images]_vars

\* C14: no load is cancelled and loads commit in completion order: a pending image
\* stays pending until its own onload or onerror, each onload makes its image the
\* mapImage, also when a later load has completed before, and mapImage stays until
\* another onload
LoadsCommitInCompletionOrder ==
  [][/\ \A img \in images :
          /\ img \in images' \/ Loaded(img) \/ Failed(img)
          /\ Loaded(img) => mapImage' = Some(img)
     /\ mapImage' # mapImage => \E img \in images : Loaded(img)]_vars

\* two loads were started and both completed, none failed, and the map shown is
\* the image of the first: the second completed before it
StaleImageShown ==
  /\ nLoad = 2
  /\ images = {}
  /\ errorContainer = ""
  /\ mapImage = Some([id |-> 1, src |-> "a.png"])
  /\ robotPosition = [x |-> 3, y |-> 0]

\* the step is an input event: a wheel, mousemove, click or resize listener ran
InputStep == nWheel' # nWheel \/ nMove' # nMove \/ nOther' # nOther

\* C15: the input handlers never change robotPosition, mapImage or isLoading, and
\* the poll cycles and image callbacks never change pan or scale
WritersDisjoint ==
  [][/\ InputStep =>
          /\ robotPosition' = robotPosition
          /\ mapImage' = mapImage
          /\ isLoading' = isLoading
     /\ ~InputStep =>
          /\ pan' = pan
          /\ scale' = scale]_vars

\* both sides have written: a pose and a map from the polls, a zoom and a pan from
\* the inputs
SceneAndViewWritten ==
  /\ robotPosition = [x |-> -64, y |-> 7]
  /\ mapImage # None
  /\ ~isLoading
  /\ scale # One
  /\ pan.x # Zero
  /\ nWheel > 0

\* C16: the readout is written in the pass of every render: after every applied
\* state, with or without attributes, the readout shows the status of that state
\* and the position of the robot in the frame drawn
ReadoutFollowsApply ==
  [][\A state \in Payloads :
       Apply(state) /\ ~state.isNull =>
         /\ Redrawn'
         /\ statusDisplay'.status = OrUnknown(state.state)
         /\ statusDisplay'.position =
              <<ToFixed1(robotPosition'.x), ToFixed1(robotPosition'.y)>>]_vars

\* C17: at most one poll cycle is outstanding: the fetches in flight (a cycle awaits
\* its fetch, then its body) and the pending poll timers are at most one together
OnePollOutstanding ==
  /\ fetching + timers <= 1
  /\ fetching + decoding + timers = 1

\* the timer of the third cycle at least is pending: two states were applied
ThirdCycleArmed ==
  /\ timers = 1
  /\ fetching = 0
  /\ statusDisplay = [status |-> "returning", position |-> <<-640, 70>>]

\* C18: isLoading is monotone: it changes only in the step that applies a decoded
\* state, every such step makes it false, also for a state without attributes, and
\* it is never true again, whatever cycles fail later
LoadingMonotone ==
  [][/\ isLoading' => isLoading
     /\ isLoading' # isLoading => JsonResolve(Payloads)
     /\ \A state \in Payloads : Apply(state) /\ ~state.isNull => ~isLoading']_vars

\* loading ended with a state that has no attributes (the readout was never
\* written), and a cycle failed
NotLoadingWithBanner ==
  /\ ~isLoading
  /\ statusDisplay.status = ""
  /\ errorContainer = MsgData
  /\ loadingIndicator = "none"

\* C19: the error banner is sticky: once it shows a message no step empties it, and
\* a step that changes it is one of the steps in which a catch block of
\* pollMapData or an img.onerror runs
BannerSticky ==
  [][/\ errorContainer # "" => errorContainer' # ""
     /\ errorContainer' # errorContainer =>
          /\ errorContainer' \in {MsgData, MsgImage}
          /\ FetchReject \/ JsonReject \/ JsonResolve({PNull}) \/ ImageError]_vars

\* the banner shows the failure of the only image load started, in a state that
\* applied states and an input event have also written
BannerKept ==
  /\ errorContainer = MsgImage
  /\ nLoad = 1
  /\ images = {}
  /\ statusDisplay.status = "cleaning"
  /\ ~isLoading
  /\ nWheel + nMove + nOther > 0

====
